---- MODULE Spec2Model ----
(***************************************************************************)
(* A state-machine model of the DUC viewer's conversion pipeline:          *)
(*   - FlatcManager (flatcManager.ts): three-tier resolution of the flatc  *)
(*     binary with a memoized path and an isDownloading guard;             *)
(*   - DucDocument.convertDucToJson / DucViewerProvider.resolveCustomEditor*)
(*     (ducViewerEditor.ts, the schema-aware version): scratch files,      *)
(*     decoder invocation, cleanup, error reporting;                       *)
(*   - SchemaParser (schemaParser.ts) and encodeBinaryFields: which field  *)
(*     paths are binary, and the rewrite of the decoded tree;              *)
(*   - CustomSchemaManager (customSchemaManager.ts): the override setting, *)
(*     its validation and its clearing, atomically per operation and, for  *)
(*     getCustomSchemaContent, with the commands interleaved at its awaits.*)
(* One action is one run-to-completion segment of JavaScript between two   *)
(* awaits; the outcome of every external operation (process, file system,  *)
(* network) is an input drawn with \E.                                     *)
(***************************************************************************)
EXTENDS Integers, Sequences, FiniteSets, TLC

\* ------------------------------------------------------------------ bounds
\* Number of conversions (opened documents) that may run, overlapping or not.
MaxCalls == 2
\* Number of ducPreview.checkFlatc commands that may run, overlapping or not.
MaxChecks == 3
\* Last value of the millisecond clock read by Date.now().
MaxTime == 1

\* Number of lines of a schema text.
MaxLines == 3
\* Length of an array in a decoded tree.
MaxArrayLen == 2
\* Number of key and index steps of a field path put to the classifier.
MaxPathSteps == 3

Calls == 1..MaxCalls
Checks == (MaxCalls + 1)..(MaxCalls + MaxChecks)
Callers == Calls \cup Checks
Times == 0..MaxTime

\* --------------------------------------------------------------- constants
NoPath == "null"
\* this.flatcPath = 'flatc' (the bare name, resolved through PATH)
PrivateCopy == "bin/flatc"

BareName == "flatc"
\* path.join(extensionPath, 'bin', flatcBin)
LocalPath == "bin/flatc"
Platforms == {"win32", "darwin", "linux", "freebsd"}
Archs == {"arm64", "x64"}
ScratchKinds == {"schema", "temp", "json"}
\* paths the customSchemaPath setting may hold
SchemaPaths == {"my.fbs", "new.fbs", "my.txt"}
\* texts a schema file may hold
CustomTexts == {"textA", "textB"}

VARIABLES
    now,            \* Date.now()
    platform,       \* os.platform(), fixed for the run
    flatcPath,      \* FlatcManager.flatcPath
    isDownloading,  \* FlatcManager.isDownloading
    binDir,         \* <extensionPath>/bin exists
    binFile,        \* <extensionPath>/bin/<flatcBin>: "absent", "noexec", "exec"
    schemaFiles,    \* tmpdir: duc_schema_<t>.fbs -> "none" | "default" | "custom"
    tempFiles,      \* tmpdir: duc_temp_<t>.duc   -> 0 (absent) | payload of call c
    jsonFiles,      \* tmpdir: duc_temp_<t>.json  -> 0 (absent) | payload it was decoded from
    call,           \* per caller: position and locals of convertDucToJson / checkFlatc
    errIn,          \* the value caught by convertDucToJson's catch block
    errMsg,         \* the message of the Error that block throws
    schemaContent,  \* SchemaParser.schemaContent: the lines of the schema text
    byteArrayFields,\* SchemaParser.byteArrayFields
    tree,           \* parsedJson, the decoded tree handed to encodeBinaryFields
    treeBefore,     \* the tree as it was before the last encodeBinaryFields pass
    passes,         \* number of encodeBinaryFields passes made over the tree
    workspaceOpen,  \* vscode.workspace.workspaceFolders is defined
    wsValue,        \* ducPreview.customSchemaPath in the workspace settings
    globalValue,    \* ducPreview.customSchemaPath in the user settings
    fileState,      \* what is on disk at each path a setting may hold
    lastGet,        \* in the last operation: what workspaceConfig.get returned
    lastPath,       \* in the last operation: what getCustomSchemaPath returned
    lastRead,       \* in the last operation: how readFile of the override ended
    lastClear,      \* in the last operation: how clearCustomSchema ended
    schemaUsed,     \* in the last operation: the schema text written and classified
    fileText,       \* the text of the file at each path a setting may hold
    lastSelect,     \* in the last operation: what selectCustomSchema was given and did
    conv            \* per conversion: where it stands with its schema text

locatorVars == <<flatcPath, isDownloading, binDir, binFile>>
scratchVars == <<schemaFiles, tempFiles, jsonFiles>>
vars == <<now, platform, flatcPath, isDownloading, binDir, binFile,
          schemaFiles, tempFiles, jsonFiles, call, errIn, errMsg,
          schemaContent, byteArrayFields, tree, treeBefore, passes,
          workspaceOpen, wsValue, globalValue, fileState, lastGet, lastPath,
          lastRead, lastClear, schemaUsed, fileText, lastSelect, conv>>
catchVars == <<errIn, errMsg>>
parserVars == <<schemaContent, byteArrayFields, tree, treeBefore, passes>>
settingVars == <<workspaceOpen, wsValue, globalValue, fileState, lastGet, lastPath,
                 lastRead, lastClear, schemaUsed, fileText, lastSelect>>

\* ------------------------------------------------- JavaScript error objects
\* A string is a sequence of one-character strings; " " is whitespace.
RECURSIVE TrimLeft(_)
TrimLeft(s) == IF s # <<>> /\ Head(s) = " " THEN TrimLeft(Tail(s)) ELSE s

RECURSIVE TrimRight(_)
TrimRight(s) ==
    IF s # <<>> /\ s[Len(s)] = " " THEN TrimRight(SubSeq(s, 1, Len(s) - 1)) ELSE s

\* String.prototype.trim
Trim(s) == TrimRight(TrimLeft(s))

\* A property of an error object: its typeof and its value.
Undefined == [t |-> "undefined", v |-> <<>>]
JsNull == [t |-> "object", v |-> <<"null">>]
JsString(s) == [t |-> "string", v |-> s]
JsNumber(n) == [t |-> "number", v |-> <<n>>]

\* new Error(message), as thrown by the extension's own code.
PlainError(m) ==
    [message |-> JsString(<<m>>), stderr |-> Undefined, stdout |-> Undefined,
     code |-> Undefined, signal |-> Undefined]

\* A Node file-system error: message and a string code.
FsError(m) ==
    [message |-> JsString(<<m>>), stderr |-> Undefined, stdout |-> Undefined,
     code |-> JsString(<<"EACCES">>), signal |-> Undefined]

\* What the catch block may be handed: a rejection of promisified execFile
\* (nonzero exit: numeric code, null signal; death by signal: null code, signal
\* name; spawn failure: string code), an Error of the extension's own, or a
\* thrown value that is no Error.
CaughtErrors ==
    [message : {JsString(<<"Command failed">>), Undefined},
     stderr  : {Undefined, JsString(<<>>), JsString(<<"m", " ">>), JsString(<<" ", "m", "m">>)},
     stdout  : {Undefined, JsString(<<" ">>), JsString(<<"o", " ">>)},
     code    : {Undefined, JsNull, JsNumber("1"), JsString(<<"ENOENT">>)},
     signal  : {Undefined, JsNull, JsString(<<"SIGKILL">>)}]

\* The catch block of convertDucToJson: the text of the Error it throws.
StreamPart(label, x) ==
    IF x.t # "undefined"
    THEN <<label, ":\n">> \o (IF Len(Trim(x.v)) > 0 THEN Trim(x.v) ELSE <<"(empty)">>)
    ELSE <<label, ": (not available on error object)">>

TypedPart(label, x) ==
    IF x.t = label.want THEN <<label.text>> \o x.v
    ELSE IF x.t # "undefined" THEN <<label.text>> \o x.v \o <<" (type: ", x.t, ")">>
    ELSE <<>>

DetailedMessageNoCode(e) ==
    (IF e.message.t = "string" THEN e.message.v ELSE <<"Failed to execute flatc command.">>)
    \o StreamPart("\n\nStderr from flatc", e.stderr)
    \o StreamPart("\n\nStdout from flatc", e.stdout)
    \o TypedPart([text |-> "\n\nSignal: ", want |-> "string"], e.signal)

DetailedMessage(e) ==
    (IF e.message.t = "string" THEN e.message.v ELSE <<"Failed to execute flatc command.">>)
    \o StreamPart("\n\nStderr from flatc", e.stderr)
    \o StreamPart("\n\nStdout from flatc", e.stdout)
    \o TypedPart([text |-> "\n\nExit code: ", want |-> "number"], e.code)
    \o TypedPart([text |-> "\n\nSignal: ", want |-> "string"], e.signal)

\* s occurs in m as a contiguous run.
Contains(m, s) ==
    \E i \in 0..(Len(m) - Len(s)) : SubSeq(m, i + 1, i + Len(s)) = s

\* ------------------------------------------------------------ JSON values
\* A value of the tree returned by JSON.parse.  An object keeps its entries in
\* insertion order: keys[i] names kids[i].
JNull == [t |-> "null", n |-> 0, s |-> <<>>, keys |-> <<>>, kids |-> <<>>]
JNum(n) == [t |-> "number", n |-> n, s |-> <<>>, keys |-> <<>>, kids |-> <<>>]
JStr(s) == [t |-> "string", n |-> 0, s |-> s, keys |-> <<>>, kids |-> <<>>]
JArr(kids) == [t |-> "array", n |-> 0, s |-> <<>>, keys |-> <<>>, kids |-> kids]
JObj(keys, kids) == [t |-> "object", n |-> 0, s |-> <<>>, keys |-> keys, kids |-> kids]

\* Buffer.from(array): every element becomes one byte; a number is taken
\* modulo 256, anything that is no number counts as 0.
ToUint8(v) == IF v.t = "number" THEN v.n % 256 ELSE 0

Base64Alphabet ==
    <<"A", "B", "C", "D", "E", "F", "G", "H", "I", "J", "K", "L", "M",
      "N", "O", "P", "Q", "R", "S", "T", "U", "V", "W", "X", "Y", "Z",
      "a", "b", "c", "d", "e", "f", "g", "h", "i", "j", "k", "l", "m",
      "n", "o", "p", "q", "r", "s", "t", "u", "v", "w", "x", "y", "z",
      "0", "1", "2", "3", "4", "5", "6", "7", "8", "9", "+", "/">>

Base64Char(i) == Base64Alphabet[i + 1]

\* buffer.toString("base64"): three bytes to four characters, '=' padded.
RECURSIVE Base64(_)
Base64(b) ==
    IF Len(b) = 0 THEN <<>>
    ELSE IF Len(b) = 1
    THEN <<Base64Char(b[1] \div 4), Base64Char((b[1] % 4) * 16), "=", "=">>
    ELSE IF Len(b) = 2
    THEN <<Base64Char(b[1] \div 4), Base64Char((b[1] % 4) * 16 + b[2] \div 16),
           Base64Char((b[2] % 16) * 4), "=">>
    ELSE <<Base64Char(b[1] \div 4), Base64Char((b[1] % 4) * 16 + b[2] \div 16),
           Base64Char((b[2] % 16) * 4 + b[3] \div 64), Base64Char(b[3] % 64)>>
         \o Base64(SubSeq(b, 4, Len(b)))

\* Buffer.from(value).toString("base64")
DecimalText(kids) == [i \in 1..Len(kids) |-> ToString(ToUint8(kids[i]))]

BufferToBase64(kids) == Base64([i \in 1..Len(kids) |-> ToUint8(kids[i])])

\* ------------------------------------------------------------- field paths
\* A path is the sequence of the lexemes of its text: a key, ".", "[", the
\* digits of an index, "]".  The empty path is the root.
\* `${path}.${key}`, or the key alone at the root
KeyAlone(path, key) == <<key>>

PathKey(path, key) == IF path = <<>> THEN <<key>> ELSE path \o <<".", key>>

\* `${path}[${i}]`
PathIndex(path, i) == path \o <<"[", ToString(i), "]">>

\* \[\d+\] matches "[", a run of digits, "]"
IsDigits(tok) == \E i \in 0..MaxArrayLen : tok = ToString(i)

\* fieldPath.replace(/\[\d+\]/g, '')
RECURSIVE StripIndices(_)
StripIndices(p) ==
    IF p = <<>> THEN <<>>
    ELSE IF Len(p) >= 3 /\ p[1] = "[" /\ IsDigits(p[2]) /\ p[3] = "]"
         THEN StripIndices(SubSeq(p, 4, Len(p)))
         ELSE <<p[1]>> \o StripIndices(Tail(p))

\* ------------------------------------------------------------ SchemaParser
\* A schema line is the sequence of its lexemes; " " is whitespace and every
\* lexeme that is not punctuation is a run of word characters.
Punctuation == {" ", ":", ";", "{", "}", "[byte]", "[ubyte]", "(deprecated)", "//", "#", "$"}

\* \w+
IsWord(tok) == tok \notin Punctuation

\* \s*
RECURSIVE SkipSpace(_, _)
SkipSpace(line, i) ==
    IF i <= Len(line) /\ line[i] = " " THEN SkipSpace(line, i + 1) ELSE i

\* the lexeme at position i, "$" past the end of the line
At(line, i) == IF i <= Len(line) THEN line[i] ELSE "$"

\* ^\s*(\w+)\s*:\s*  -- the name, and where the type begins
FieldHead(line) ==
    LET i1 == SkipSpace(line, 1)
        i2 == SkipSpace(line, i1 + 1)
    IN  [hit  |-> IsWord(At(line, i1)) /\ At(line, i2) = ":",
         name |-> At(line, i1),
         type |-> SkipSpace(line, i2 + 1)]

\* /^\s*(\w+)\s*:\s*\[(?:u?)byte\]/
NestedByteArrayPattern(line) ==
    LET h == FieldHead(line)
    IN  [hit |-> h.hit /\ At(line, h.type) \in {"[byte]", "[ubyte]"}, name |-> h.name]

\* /^\s*(\w+)\s*:\s*\[(?:u?)byte\]\s*(?:;|$)/
ByteArrayPattern(line) ==
    LET h == FieldHead(line)
        j == SkipSpace(line, h.type + 1)
    IN  [hit  |-> /\ h.hit
                  /\ At(line, h.type) \in {"[byte]", "[ubyte]"}
                  /\ At(line, j) \in {";", "$"},
         name |-> h.name]

\* /^\s*(\w+)\s*:\s*(\w+)(?:\s*;|\s*$)/
TableFieldPattern(line) ==
    LET h == FieldHead(line)
        j == SkipSpace(line, h.type + 1)
    IN  [hit  |-> /\ h.hit
                  /\ IsWord(At(line, h.type))
                  /\ At(line, j) \in {";", "$"},
         name |-> h.name,
         type |-> At(line, h.type)]

IsPrimitiveType(typeName) ==
    typeName \in {"bool", "byte", "ubyte", "short", "ushort", "int", "uint",
                  "float", "long", "ulong", "double", "string"}

\* (line.match(/\{/g) || []).length and the same for '}'
RECURSIVE Count(_, _)
Count(line, tok) ==
    IF line = <<>> THEN 0
    ELSE (IF Head(line) = tok THEN 1 ELSE 0) + Count(Tail(line), tok)

\* checkTableForByteArrays: the loop from line i on, st = [inTable, depth, found]
RECURSIVE CheckTableFrom(_, _, _, _, _)
CheckTableFrom(content, i, tableName, parentField, st) ==
    IF i > Len(content) THEN st.found
    ELSE LET line == content[i]
         IN  IF Trim(line) = <<"table", " ", tableName, " ", "{">>
             THEN CheckTableFrom(content, i + 1, tableName, parentField,
                                 [st EXCEPT !.inTable = TRUE, !.depth = 1])
             ELSE IF ~st.inTable
             THEN CheckTableFrom(content, i + 1, tableName, parentField, st)
             ELSE LET depth == st.depth + Count(line, "{") - Count(line, "}")
                      m == NestedByteArrayPattern(line)
                  IN  IF depth <= 0 THEN st.found
                      ELSE CheckTableFrom(content, i + 1, tableName, parentField,
                               [st EXCEPT !.depth = depth,
                                          !.found = IF m.hit
                                                    THEN @ \cup {<<parentField, ".", m.name>>}
                                                    ELSE @])

CheckTableForByteArrays(content, tableName, parentField) ==
    CheckTableFrom(content, 1, tableName, parentField,
                   [inTable |-> FALSE, depth |-> 0, found |-> {}])

\* parseLine, handed the trimmed line: the paths it adds to byteArrayFields
ParseLine(content, line) ==
    IF line = <<>> \/ Head(line) \in {"//", "#"} THEN {}
    ELSE LET m == ByteArrayPattern(line)
             tm == TableFieldPattern(line)
         IN  (IF m.hit THEN {<<m.name>>} ELSE {})
             \cup (IF tm.hit /\ ~IsPrimitiveType(tm.type)
                   THEN CheckTableForByteArrays(content, tm.type, tm.name)
                   ELSE {})

\* addKnownBinaryFields
NoKnownBinaryFields == {}

KnownBinaryFields ==
    {<<"data">>,
     <<"files", ".", "entries", ".", "value", ".", "data">>,
     <<"thumbnail">>,
     <<"version_graph", ".", "checkpoints", ".", "data">>,
     <<"external_files", ".", "value", ".", "data">>}

\* parseSchema: the set it leaves in byteArrayFields
ParseSchema(content) ==
    UNION {ParseLine(content, Trim(content[i])) : i \in 1..Len(content)}
    \cup KnownBinaryFields

\* shouldEncodeAsBase64
ExactMatchOnly(fields, fieldPath) == fieldPath \in fields

IndexedOnly(fields, fieldPath) ==
    fieldPath \notin fields /\ StripIndices(fieldPath) \in fields

ShouldEncodeAsBase64(fields, fieldPath) ==
    \/ fieldPath \in fields
    \/ StripIndices(fieldPath) \in fields

\* ------------------------------------------------------ encodeBinaryFields
\* Array.isArray(v) && v.length > 0 && typeof v[0] === "number"
AnyShape(v) == TRUE

LooksLikeBytes(v) == v.t = "array" /\ Len(v.kids) > 0 /\ v.kids[1].t = "number"

\* The tree encodeBinaryFields leaves behind when called on obj at path.
RECURSIVE EncodeBinaryFields(_, _, _)
EncodeBinaryFields(fields, obj, path) ==
    IF obj.t \notin {"array", "object"} THEN obj
    ELSE IF obj.t = "array"
    THEN IF ShouldEncodeAsBase64(fields, path)
         THEN IF LooksLikeBytes(obj)
              THEN JArr(<<JStr(BufferToBase64(obj.kids))>>)
              ELSE obj
         ELSE JArr([i \in 1..Len(obj.kids) |->
                       EncodeBinaryFields(fields, obj.kids[i], PathIndex(path, i - 1))])
    ELSE JObj(obj.keys,
              [i \in 1..Len(obj.keys) |->
                 LET currentPath == PathKey(path, obj.keys[i])
                     value == obj.kids[i]
                 IN  IF ShouldEncodeAsBase64(fields, currentPath)
                     THEN IF LooksLikeBytes(value)
                          THEN JStr(BufferToBase64(value.kids))
                          ELSE value
                     ELSE EncodeBinaryFields(fields, value, currentPath)])

\* The paths at which that call takes the array branch's splice: obj is an
\* array, its path is classified and its first element is a number.
RECURSIVE SplicedPaths(_, _, _)
SplicedPaths(fields, obj, path) ==
    IF obj.t = "array"
    THEN IF ShouldEncodeAsBase64(fields, path)
         THEN (IF LooksLikeBytes(obj) THEN {path} ELSE {})
         ELSE UNION {SplicedPaths(fields, obj.kids[i], PathIndex(path, i - 1)) :
                        i \in 1..Len(obj.kids)}
    ELSE IF obj.t = "object"
    THEN UNION {IF ShouldEncodeAsBase64(fields, PathKey(path, obj.keys[i]))
                THEN {}
                ELSE SplicedPaths(fields, obj.kids[i], PathKey(path, obj.keys[i])) :
                   i \in 1..Len(obj.keys)}
    ELSE {}

\* Every node of a tree with the path encodeBinaryFields would give it.
RECURSIVE Nodes(_, _)
Nodes(obj, path) ==
    {[path |-> path, value |-> obj]}
    \cup (IF obj.t = "array"
          THEN UNION {Nodes(obj.kids[i], PathIndex(path, i - 1)) : i \in 1..Len(obj.kids)}
          ELSE IF obj.t = "object"
          THEN UNION {Nodes(obj.kids[i], PathKey(path, obj.keys[i])) : i \in 1..Len(obj.keys)}
          ELSE {})

\* ------------------------------------------------------------ initial state
IdleCall ==
    [kind |-> "none", pc |-> "idle", schemaT |-> -1, tempT |-> -1, custom |-> FALSE,
     pathProbe |-> "none", localProbe |-> "none", dlProbe |-> "none",
     url |-> "none", flatc |-> NoPath,
     created |-> {}, unlinkTried |-> {}, unlinkFailed |-> {},
     failedAt |-> "none", error |-> "none", result |-> "none", outPayload |-> 0,
     webview |-> "none"]

NoError == PlainError("")

\* No schema parsed and no tree decoded yet.
ParserAtRest ==
    /\ schemaContent = <<>>
    /\ byteArrayFields = {}
    /\ tree = JNull
    /\ treeBefore = JNull
    /\ passes = 0

\* A conversion that has not started.
IdleConv == [pc |-> "idle", path |-> NoPath, content |-> "none", written |-> "none", used |-> {}]

\* selectCustomSchema has not run
NotSelected == [path |-> NoPath, outcome |-> "none"]

\* No override stored, no folder open, no conversion started.
SettingsAtRest ==
    /\ workspaceOpen = FALSE
    /\ wsValue = NoPath
    /\ globalValue = NoPath
    /\ fileState = [p \in SchemaPaths |-> "missing"]
    /\ lastGet = "none"
    /\ lastPath = "none"
    /\ lastRead = "none"
    /\ lastClear = "none"
    /\ schemaUsed = "none"
    /\ fileText = [p \in SchemaPaths |-> "textA"]
    /\ lastSelect = NotSelected
    /\ conv = [c \in Calls |-> IdleConv]

BaseInit ==
    /\ now = 0
    /\ platform \in Platforms
    /\ flatcPath = NoPath
    /\ isDownloading = FALSE
    \* what an earlier run left in <extensionPath>/bin
    /\ binDir \in BOOLEAN
    /\ binFile \in (IF binDir THEN {"absent", "noexec", "exec"} ELSE {"absent"})
    /\ schemaFiles = [t \in Times |-> "none"]
    /\ tempFiles = [t \in Times |-> 0]
    /\ jsonFiles = [t \in Times |-> 0]
    /\ call = [c \in Callers |-> IdleCall]
    /\ errMsg = <<>>
    /\ ParserAtRest
    /\ SettingsAtRest

Init ==
    /\ BaseInit
    /\ errIn = NoError

Upd(c, rec) == call' = [call EXCEPT ![c] = rec]

\* The locals of a settled call are gone; what it returned or threw remains.
Settled(rec) ==
    [rec EXCEPT !.pc = "done", !.schemaT = -1, !.tempT = -1, !.custom = FALSE,
                !.pathProbe = "none", !.localProbe = "none", !.dlProbe = "none",
                !.url = "none"]

\* convertDucToJson's catch block throws one Error and returns nothing;
\* resolveCustomEditor's catch block then shows the error text.  The
\* checkFlatc command shows the error in a notification.
RejectedDegraded(rec, step, err) ==
    [Settled(rec) EXCEPT !.failedAt = step, !.error = err, !.result = "text",
                         !.webview = IF rec.kind = "convert" THEN "content" ELSE @]

Rejected(rec, step, err) ==
    [Settled(rec) EXCEPT !.failedAt = step, !.error = err, !.result = "error",
                         !.webview = IF rec.kind = "convert" THEN "error" ELSE @]

\* ------------------------------------------------------------ FlatcManager
\* if (this.flatcPath) return this.flatcPath;
NeverMemoized == FALSE

Memoized == flatcPath # NoPath

\* if (this.isDownloading) throw ...
NoDownloadGuard == FALSE

AlreadyDownloading == isDownloading

\* finally { this.isDownloading = false; }
FlagLeftSet == isDownloading

FinallyFlag == FALSE

\* the platform branches of downloadFlatc that yield a download URL
AnyPlatform(p) == TRUE

SupportedPlatform(p) == p \in {"win32", "darwin", "linux"}

DownloadUrl(p, arch) ==
    IF p = "win32" THEN "Windows.flatc.binary.zip"
    ELSE IF p = "darwin"
         THEN (IF arch = "arm64" THEN "Mac.M1.flatc.binary.zip"
               ELSE "Mac.Intel.flatc.binary.zip")
         ELSE "Linux.flatc.binary.clang++-17.zip"

\* getFlatcPath has returned p: convertDucToJson spawns the decoder; the
\* checkFlatc command reports the path.
Resolved(rec, p) ==
    IF rec.kind = "check"
    THEN [rec EXCEPT !.pc = "done", !.flatc = p, !.result = "path", !.url = "none"]
    ELSE [rec EXCEPT !.flatc = p, !.pc = "exec"]

\* The head of getFlatcPath: the memoized path, or spawn `flatc --version`.
NotAwaited(rec) == [rec EXCEPT !.pc = "exec"]

GetFlatcPath(rec) ==
    IF Memoized THEN Resolved(rec, flatcPath) ELSE [rec EXCEPT !.pc = "pathq"]

\* downloadFlatc up to withProgress: the guard and the flag.
DownloadFlatc(c, rec) ==
    IF AlreadyDownloading
    THEN /\ Upd(c, Rejected(rec, "resolve", "Already downloading flatc, please wait."))
         /\ UNCHANGED isDownloading
    ELSE /\ isDownloading' = TRUE
         /\ Upd(c, [rec EXCEPT !.pc = "dlSetup"])

\* A step of downloadFlatc's task failed: catch rethrows, finally clears the flag.
DownloadFailed(c, err) ==
    /\ isDownloading' = FinallyFlag
    /\ Upd(c, Rejected(call[c], "resolve", err))

\* --------------------------------------------------------------- the clock
Tick ==
    /\ now < MaxTime
    /\ now' = now + 1
    /\ UNCHANGED <<platform, locatorVars, scratchVars, call, catchVars, parserVars, settingVars, conv>>

\* ---------------------------------------------------- the checkFlatc command
\* ducPreview.checkFlatc: await flatcManager.getFlatcPath().
StartCheck(c) ==
    /\ call[c].pc = "idle"
    /\ Upd(c, GetFlatcPath([call[c] EXCEPT !.kind = "check"]))
    /\ UNCHANGED <<now, platform, locatorVars, scratchVars, catchVars, parserVars, settingVars, conv>>

\* ------------------------------------------------- convertDucToJson, part 1
\* resolveCustomEditor shows the loading page and calls getJsonContent;
\* convertDucToJson names the schema file after Date.now() and awaits
\* getCustomSchemaContent.
StartConvert(c) ==
    /\ call[c].pc = "idle"
    /\ Upd(c, [call[c] EXCEPT !.kind = "convert", !.pc = "schema", !.schemaT = now,
                              !.webview = "loading"])
    /\ UNCHANGED <<now, platform, locatorVars, scratchVars, catchVars, parserVars, settingVars, conv>>

\* getCustomSchemaContent has settled (custom text or null): write the schema
\* file, name the payload file after Date.now(), write it, call getFlatcPath.
SchemaReady(c) ==
    /\ call[c].pc = "schema"
    /\ \E custom \in BOOLEAN :
         LET r0 == [call[c] EXCEPT !.custom = custom]
             r1 == [r0 EXCEPT !.created = {"schema"}, !.tempT = now]
             r2 == [r1 EXCEPT !.created = {"schema", "temp"}]
         IN  \/ /\ Upd(c, Rejected(r0, "schemaWrite", "writeFileSync"))
                /\ UNCHANGED <<schemaFiles, tempFiles>>
             \/ /\ schemaFiles' = [schemaFiles EXCEPT ![r0.schemaT] =
                                      IF custom THEN "custom" ELSE "default"]
                /\ \/ /\ Upd(c, Rejected(r1, "payloadWrite", "writeFileSync"))
                      /\ UNCHANGED tempFiles
                   \/ /\ tempFiles' = [tempFiles EXCEPT ![now] = c]
                      /\ Upd(c, GetFlatcPath(r2))
    /\ UNCHANGED <<now, platform, locatorVars, jsonFiles, catchVars, parserVars, settingVars, conv>>

\* ------------------------------------------------------------ getFlatcPath
\* `flatc --version` through PATH has succeeded: memoize the bare name.
PathQueryOk(c) ==
    /\ call[c].pc = "pathq"
    /\ flatcPath' = BareName
    /\ Upd(c, Resolved([call[c] EXCEPT !.pathProbe = "ok"], BareName))
    /\ UNCHANGED <<now, platform, isDownloading, binDir, binFile, scratchVars, catchVars, parserVars, settingVars, conv>>

\* `flatc --version` through PATH has failed: look for the binary in
\* <extensionPath>/bin, chmod it (errors swallowed) and spawn its version
\* query, or go on to downloadFlatc.
PathQueryFailed(c) ==
    /\ call[c].pc = "pathq"
    /\ LET r0 == [call[c] EXCEPT !.pathProbe = "failed"]
       IN  IF binFile # "absent"
           THEN /\ \E chmodOk \in BOOLEAN :
                     binFile' = IF platform # "win32" /\ chmodOk THEN "exec" ELSE binFile
                /\ Upd(c, [r0 EXCEPT !.pc = "localq", !.localProbe = "found"])
                /\ UNCHANGED <<flatcPath, isDownloading, binDir>>
           ELSE /\ DownloadFlatc(c, [r0 EXCEPT !.localProbe = "absent"])
                /\ UNCHANGED <<flatcPath, binDir, binFile>>
    /\ UNCHANGED <<now, platform, scratchVars, catchVars, parserVars, settingVars, conv>>

\* The version query of the locally stored binary has succeeded.
LocalQueryOk(c) ==
    /\ call[c].pc = "localq"
    /\ flatcPath' = LocalPath
    /\ Upd(c, Resolved([call[c] EXCEPT !.localProbe = "ok"], LocalPath))
    /\ UNCHANGED <<now, platform, isDownloading, binDir, binFile, scratchVars, catchVars, parserVars, settingVars, conv>>

\* The version query of the locally stored binary has failed.
LocalQueryFailedMemoized(c) ==
    /\ call[c].pc = "localq"
    /\ flatcPath' = LocalPath
    /\ Upd(c, Resolved([call[c] EXCEPT !.localProbe = "failed"], LocalPath))
    /\ UNCHANGED <<now, platform, isDownloading, binDir, binFile, scratchVars, catchVars, parserVars, settingVars, conv>>

LocalQueryFailed(c) ==
    /\ call[c].pc = "localq"
    /\ DownloadFlatc(c, [call[c] EXCEPT !.localProbe = "failed"])
    /\ UNCHANGED <<now, platform, flatcPath, binDir, binFile, scratchVars, catchVars, parserVars, settingVars, conv>>

\* ----------------------------------------------------------- downloadFlatc
\* The task given to withProgress, up to `await this.downloadFile`: pick the
\* URL by platform, create bin/, remove an old binary (errors swallowed),
\* start the HTTPS request.
DownloadSetup(c) ==
    /\ call[c].pc = "dlSetup"
    /\ IF ~SupportedPlatform(platform)
       THEN /\ DownloadFailed(c, "Unsupported platform")
            /\ UNCHANGED <<binDir, binFile>>
       ELSE \/ /\ ~binDir
               /\ DownloadFailed(c, "mkdirSync")
               /\ UNCHANGED <<binDir, binFile>>
            \/ /\ binDir' = TRUE
               /\ \E unlinkOk \in BOOLEAN :
                    binFile' = IF binFile # "absent" /\ unlinkOk THEN "absent" ELSE binFile
               /\ \E arch \in Archs :
                    Upd(c, [call[c] EXCEPT !.pc = "downloading",
                                           !.url = DownloadUrl(platform, arch)])
               /\ UNCHANGED isDownloading
    /\ UNCHANGED <<now, platform, flatcPath, scratchVars, catchVars, parserVars, settingVars, conv>>

\* downloadFile has settled (status 200 and stream finished, or an error).
DownloadDone(c) ==
    /\ call[c].pc = "downloading"
    /\ \/ /\ Upd(c, [call[c] EXCEPT !.pc = "extracting"])
          /\ UNCHANGED isDownloading
       \/ DownloadFailed(c, "Failed to download file")
    /\ UNCHANGED <<now, platform, flatcPath, binDir, binFile, scratchVars, catchVars, parserVars, settingVars, conv>>

\* extract-zip has settled: the binary must now exist; chmod it, delete the
\* archive, spawn the version query of the extracted binary.
ExtractDone(c) ==
    /\ call[c].pc = "extracting"
    /\ \E extracted \in {"absent", "noexec", "exec"} :
         LET after == IF extracted # "absent" THEN extracted ELSE binFile
             marked == IF platform # "win32" THEN "exec" ELSE after
         IN  \/ /\ DownloadFailed(c, "extract")
                /\ binFile' = after
             \/ /\ after = "absent"
                /\ DownloadFailed(c, "Extracted flatc binary not found")
                /\ binFile' = after
             \/ /\ after # "absent"
                /\ platform # "win32"
                /\ DownloadFailed(c, "chmodSync")
                /\ binFile' = after
             \/ /\ after # "absent"
                /\ DownloadFailed(c, "unlinkSync")
                /\ binFile' = marked
             \/ /\ after # "absent"
                /\ binFile' = marked
                /\ Upd(c, [call[c] EXCEPT !.pc = "verifying"])
                /\ UNCHANGED isDownloading
    /\ UNCHANGED <<now, platform, flatcPath, binDir, scratchVars, catchVars, parserVars, settingVars, conv>>

\* The version query of the extracted binary has succeeded: memoize it.
VerifyOk(c) ==
    /\ call[c].pc = "verifying"
    /\ flatcPath' = LocalPath
    /\ isDownloading' = FinallyFlag
    /\ Upd(c, Resolved([call[c] EXCEPT !.dlProbe = "ok"], LocalPath))
    /\ UNCHANGED <<now, platform, binDir, binFile, scratchVars, catchVars, parserVars, settingVars, conv>>

\* The version query of the extracted binary has failed.
VerifyFailed(c) ==
    /\ call[c].pc = "verifying"
    /\ DownloadFailed(c, "Failed to run the downloaded flatc binary")
    /\ UNCHANGED <<now, platform, flatcPath, binDir, binFile, scratchVars, catchVars, parserVars, settingVars, conv>>

\* ------------------------------------------------- convertDucToJson, part 2
\* The three unlinkSync calls, each in its own try/catch: a deletion fails when
\* the file is gone already or the file system refuses (kinds in `denied`).
CleanupOneTry(sT, tT, sf, tf, jf, denied) ==
    LET okS == sf[sT] # "none" /\ "schema" \notin denied
        okT == okS /\ tf[tT] # 0 /\ "temp" \notin denied
        okJ == okT /\ jf[tT] # 0 /\ "json" \notin denied
    IN  [schemaFiles |-> IF okS THEN [sf EXCEPT ![sT] = "none"] ELSE sf,
         tempFiles   |-> IF okT THEN [tf EXCEPT ![tT] = 0] ELSE tf,
         jsonFiles   |-> IF okJ THEN [jf EXCEPT ![tT] = 0] ELSE jf,
         tried  |-> {"schema"} \cup (IF okS THEN {"temp"} ELSE {})
                               \cup (IF okT THEN {"json"} ELSE {}),
         failed |-> IF ~okS THEN {"schema"} ELSE IF ~okT THEN {"temp"}
                    ELSE IF ~okJ THEN {"json"} ELSE {}]

Cleanup(sT, tT, sf, tf, jf, denied) ==
    LET okS == sf[sT] # "none" /\ "schema" \notin denied
        okT == tf[tT] # 0 /\ "temp" \notin denied
        okJ == jf[tT] # 0 /\ "json" \notin denied
    IN  [schemaFiles |-> IF okS THEN [sf EXCEPT ![sT] = "none"] ELSE sf,
         tempFiles   |-> IF okT THEN [tf EXCEPT ![tT] = 0] ELSE tf,
         jsonFiles   |-> IF okJ THEN [jf EXCEPT ![tT] = 0] ELSE jf,
         tried  |-> {"schema", "temp", "json"},
         failed |-> (IF okS THEN {} ELSE {"schema"}) \cup (IF okT THEN {} ELSE {"temp"})
                    \cup (IF okJ THEN {} ELSE {"json"})]

\* The decoder process has failed (nonzero exit, signal, spawn failure; it
\* cannot succeed without its two input files).
ExecFailed(c) ==
    /\ call[c].pc = "exec"
    /\ Upd(c, Rejected(call[c], "exec", "Command failed"))
    /\ UNCHANGED <<now, platform, locatorVars, scratchVars, catchVars, parserVars, settingVars, conv>>

\* The decoder process has exited with code 0, having written
\* duc_temp_<t>.json from the payload file; the rest of the try block runs in
\* one piece: read the output, delete the scratch files, JSON.parse, rewrite
\* binary fields, stringify; resolveCustomEditor shows the text.
ExecOk(c) ==
    /\ call[c].pc = "exec"
    /\ schemaFiles[call[c].schemaT] # "none"
    /\ tempFiles[call[c].tempT] # 0
    /\ LET r == call[c]
           written == [jsonFiles EXCEPT ![r.tempT] = tempFiles[r.tempT]]
           r1 == [r EXCEPT !.created = @ \cup {"json"}]
       IN  \/ /\ Upd(c, Rejected(r1, "read", "readFileSync"))
              /\ jsonFiles' = written
              /\ UNCHANGED <<schemaFiles, tempFiles>>
           \/ \E denied \in SUBSET ScratchKinds :
                LET cl == Cleanup(r.schemaT, r.tempT, schemaFiles, tempFiles, written, denied)
                    r2 == [r1 EXCEPT !.unlinkTried = cl.tried, !.unlinkFailed = cl.failed]
                IN  /\ schemaFiles' = cl.schemaFiles
                    /\ tempFiles' = cl.tempFiles
                    /\ jsonFiles' = cl.jsonFiles
                    /\ \/ Upd(c, Rejected(r2, "parse", "Unexpected token"))
                       \/ Upd(c, [Settled(r2) EXCEPT !.result = "text",
                                                     !.outPayload = written[r.tempT],
                                                     !.webview = "content"])
    /\ UNCHANGED <<now, platform, locatorVars, catchVars, parserVars, settingVars, conv>>

\* ----------------------------------------------------------- specifications
GetFlatcPathStep(c) ==
    \/ PathQueryOk(c)
    \/ PathQueryFailed(c)
    \/ LocalQueryOk(c)
    \/ LocalQueryFailed(c)
    \/ DownloadSetup(c)
    \/ DownloadDone(c)
    \/ ExtractDone(c)
    \/ VerifyOk(c)
    \/ VerifyFailed(c)

\* Documents opened in the viewer.
Next ==
    \/ Tick
    \/ \E c \in Calls :
         \/ StartConvert(c)
         \/ SchemaReady(c)
         \/ GetFlatcPathStep(c)
         \/ ExecFailed(c)
         \/ ExecOk(c)

Spec == Init /\ [][Next]_vars

\* The checkFlatc command, run any number of times at once.
LocatorNext ==
    \E c \in Checks :
        \/ StartCheck(c)
        \/ GetFlatcPathStep(c)

LocatorSpec == Init /\ [][LocatorNext]_vars

\* The catch block of convertDucToJson, on every value it may be handed.
CatchBlock ==
    /\ errMsg = <<>>
    /\ errMsg' = DetailedMessage(errIn)
    /\ UNCHANGED <<now, platform, locatorVars, scratchVars, call, errIn,
                   parserVars, settingVars, conv>>

MessageInit ==
    /\ BaseInit
    /\ errIn \in CaughtErrors

MessageSpec == MessageInit /\ [][CatchBlock]_vars

\* ------------------------------------------- SchemaParser on schema texts
\* Nothing resolved, nothing converted: the state the specifications of the
\* parser, the rewrite and the settings start from.
PipelineAtRest ==
    /\ now = 0
    /\ platform = "linux"
    /\ flatcPath = NoPath
    /\ isDownloading = FALSE
    /\ binDir = FALSE
    /\ binFile = "absent"
    /\ schemaFiles = [t \in Times |-> "none"]
    /\ tempFiles = [t \in Times |-> 0]
    /\ jsonFiles = [t \in Times |-> 0]
    /\ call = [c \in Callers |-> IdleCall]
    /\ errIn = NoError
    /\ errMsg = <<>>

\* Lines a schema may hold: the byte-array declaration in its layouts (own
\* line, indented and without ';', on the line of the table header, followed
\* by an attribute, commented out), a table header, a closing brace, a field
\* of table type, a field of primitive type, an empty line.
ScenarioLine ==
    <<"table", " ", "T", " ", "{", " ", "data", ":", " ", "[ubyte]", ";", " ", "}">>

SchemaLines ==
    {<<>>,
     <<"payload", ":", " ", "[ubyte]", ";">>,
     <<" ", "blob", " ", ":", "[byte]">>,
     ScenarioLine,
     <<"table", " ", "T", " ", "{", " ", "raw", ":", " ", "[ubyte]", ";", " ", "}">>,
     <<"sig", ":", " ", "[ubyte]", " ", "(deprecated)", ";">>,
     <<"//", " ", "note", ":", "[ubyte]", ";">>,
     <<"table", " ", "T", " ", "{">>,
     <<"}">>,
     <<"a", ":", " ", "T", ";">>,
     <<"n", ":", "int", ";">>}

SchemaTexts == UNION {[1..n -> SchemaLines] : n \in 0..MaxLines}

\* this._schemaParser.parseSchema(schemaContent)
ParseSchemaCall ==
    /\ passes = 0
    /\ byteArrayFields = {}
    /\ byteArrayFields' = ParseSchema(schemaContent)
    /\ UNCHANGED <<now, platform, locatorVars, scratchVars, call, catchVars,
                   schemaContent, tree, treeBefore, passes, settingVars, conv>>

ParserInit ==
    /\ PipelineAtRest
    /\ SettingsAtRest
    /\ schemaContent \in SchemaTexts
    /\ byteArrayFields = {}
    /\ tree = JNull
    /\ treeBefore = JNull
    /\ passes = 0

ParserSpec == ParserInit /\ [][ParseSchemaCall]_vars

\* --------------------------------------- encodeBinaryFields on decoded trees
Scalars == {JNum(104), JNum(105), JStr(<<"x">>)}

\* arrays of scalars, numbers only or mixed
ScalarArrays == {JArr(a) : a \in UNION {[1..n -> Scalars] : n \in 0..MaxArrayLen}}

Bytes == JArr(<<JNum(104), JNum(105)>>)

\* what a key of the root may hold
RootValues ==
    Scalars \cup ScalarArrays \cup {JObj(<<"data">>, <<Bytes>>), JArr(<<Bytes>>)}

\* what the key "a" may hold: a scalar, a table, a vector of tables
TableValues ==
    {JNum(105)}
    \cup {JObj(<<k>>, <<b>>) : k \in {"payload", "data"}, b \in {Bytes, JArr(<<>>)}}
    \cup {JArr(<<JObj(<<k>>, <<b>>)>>) : k \in {"payload", "data"}, b \in {Bytes, JArr(<<>>)}}

DecodedTrees ==
    {JObj(<<"data", "a">>, <<x, y>>) : x \in RootValues, y \in TableValues}
    \cup {JObj(<<k>>, <<x>>) : k \in {"payload", "data"}, x \in RootValues}
    \cup {JArr(<<JObj(<<"data">>, <<x>>)>>) : x \in ScalarArrays}

\* Schema texts the trees are classified under.
SampleSchemas ==
    {<<>>,
     <<ScenarioLine>>,
     <<<<"payload", ":", " ", "[ubyte]", ";">>>>,
     <<<<"a", ":", " ", "T", ";">>, <<"table", " ", "T", " ", "{">>,
       <<"payload", ":", " ", "[ubyte]", ";">>>>,
     <<<<"data", ":", " ", "T", ";">>, <<"table", " ", "T", " ", "{">>,
       <<"data", ":", " ", "[ubyte]", ";">>>>}

\* this.encodeBinaryFields(parsedJson), once in a conversion; a second pass
\* over the rewritten tree is what a repeated post-processing would do.
EncodeCall ==
    /\ byteArrayFields # {}
    /\ passes < 2
    /\ passes' = passes + 1
    /\ treeBefore' = tree
    /\ tree' = EncodeBinaryFields(byteArrayFields, tree, <<>>)
    /\ UNCHANGED <<now, platform, locatorVars, scratchVars, call, catchVars,
                   schemaContent, byteArrayFields, settingVars, conv>>

RewriteInit ==
    /\ PipelineAtRest
    /\ SettingsAtRest
    /\ schemaContent \in SampleSchemas
    /\ byteArrayFields = {}
    /\ tree \in DecodedTrees
    /\ treeBefore = tree
    /\ passes = 0

RewriteNext == ParseSchemaCall \/ EncodeCall

RewriteSpec == RewriteInit /\ [][RewriteNext]_vars

\* ----------------------------------------------------- CustomSchemaManager
\* What may be on disk at a path: nothing; a file that may not be read; a
\* readable file with text or without; a directory (it exists and passes
\* accessSync, and readFile fails on it).
FileStates == {"missing", "unreadable", "file", "empty", "dir"}

\* filePath.toLowerCase().endsWith('.fbs')
HasFbsExtension(p) == p \in {"my.fbs", "new.fbs"}

\* isValidSchemaFile
ExtensionOnly(p) == HasFbsExtension(p)

IsValidSchemaFile(p) ==
    /\ fileState[p] # "missing"
    /\ HasFbsExtension(p)
    /\ fileState[p] # "unreadable"

\* workspaceConfig.get('customSchemaPath'): the workspace value hides the
\* user value while a folder is open.
UserSettingOnly == globalValue

ConfigGet ==
    IF workspaceOpen /\ wsValue # NoPath THEN wsValue ELSE globalValue

\* getCustomSchemaPath
GetCustomSchemaPath ==
    IF ConfigGet # NoPath /\ IsValidSchemaFile(ConfigGet) THEN ConfigGet ELSE NoPath

\* vscode.workspace.workspaceFolders ? Workspace : Global
AlwaysGlobal == "global"

ConfigTarget == IF workspaceOpen THEN "workspace" ELSE "global"

\* await workspaceConfig.update('customSchemaPath', value, configTarget)
ConfigUpdate(value, ok) ==
    IF ~ok THEN UNCHANGED <<wsValue, globalValue>>
    ELSE IF ConfigTarget = "workspace"
    THEN wsValue' = value /\ UNCHANGED globalValue
    ELSE globalValue' = value /\ UNCHANGED wsValue

\* what an operation that does not run them leaves of the last operation
NothingQueried == lastGet' = "none" /\ lastPath' = "none"

NothingRead == lastRead' = "none"

NothingCleared == lastClear' = "none"

NothingConverted == schemaUsed' = "none"

NothingSelected == lastSelect' = NotSelected

\* The user opens or closes a folder.
OpenFolder ==
    /\ ~workspaceOpen
    /\ workspaceOpen' = TRUE
    /\ NothingQueried /\ NothingRead /\ NothingCleared /\ NothingConverted
    /\ NothingSelected
    /\ UNCHANGED <<wsValue, globalValue, fileState, fileText>>
    /\ UNCHANGED <<now, platform, locatorVars, scratchVars, call, catchVars, parserVars, conv>>

CloseFolder ==
    /\ workspaceOpen
    /\ workspaceOpen' = FALSE
    /\ NothingQueried /\ NothingRead /\ NothingCleared /\ NothingConverted
    /\ NothingSelected
    /\ UNCHANGED <<wsValue, globalValue, fileState, fileText>>
    /\ UNCHANGED <<now, platform, locatorVars, scratchVars, call, catchVars, parserVars, conv>>

\* Something changes on disk at a path.
FileChange ==
    /\ \E p \in SchemaPaths, st \in FileStates, text \in CustomTexts :
         /\ st = "file" \/ text = "textA"
         /\ fileState[p] # st \/ fileText[p] # text
         /\ fileState' = [fileState EXCEPT ![p] = st]
         /\ fileText' = [fileText EXCEPT ![p] = text]
    /\ NothingQueried /\ NothingRead /\ NothingCleared /\ NothingConverted
    /\ NothingSelected
    /\ UNCHANGED <<workspaceOpen, wsValue, globalValue>>
    /\ UNCHANGED <<now, platform, locatorVars, scratchVars, call, catchVars, parserVars, conv>>

\* The user edits ducPreview.customSchemaPath in a settings file.
EditSettings ==
    /\ \E v \in SchemaPaths \cup {NoPath} :
         \/ workspaceOpen /\ wsValue' = v /\ UNCHANGED globalValue
         \/ globalValue' = v /\ UNCHANGED wsValue
    /\ NothingQueried /\ NothingRead /\ NothingCleared /\ NothingConverted
    /\ NothingSelected
    /\ UNCHANGED <<workspaceOpen, fileState, fileText>>
    /\ UNCHANGED <<now, platform, locatorVars, scratchVars, call, catchVars, parserVars, conv>>

\* ducPreview.selectCustomSchema, once the dialog has returned a file or has
\* been cancelled (NoPath).
SelectCustomSchema ==
    /\ \E selectedPath \in SchemaPaths \cup {NoPath}, ok \in BOOLEAN :
         IF selectedPath = NoPath
         THEN /\ UNCHANGED <<wsValue, globalValue>>
              /\ lastSelect' = [path |-> NoPath, outcome |-> "cancelled"]
         ELSE IF ~IsValidSchemaFile(selectedPath)
         THEN /\ UNCHANGED <<wsValue, globalValue>>
              /\ lastSelect' = [path |-> selectedPath, outcome |-> "invalid"]
         ELSE /\ ConfigUpdate(selectedPath, ok)
              /\ lastSelect' = [path |-> selectedPath,
                                outcome |-> IF ok THEN "saved" ELSE "failed"]
    /\ NothingQueried /\ NothingRead /\ NothingCleared /\ NothingConverted
    /\ UNCHANGED <<workspaceOpen, fileState, fileText>>
    /\ UNCHANGED <<now, platform, locatorVars, scratchVars, call, catchVars, parserVars, conv>>

\* clearCustomSchema: the update, its error caught and shown.
ClearCustomSchema(ok) ==
    /\ ConfigUpdate(NoPath, ok)
    /\ lastClear' = IF ok THEN "ok" ELSE "failed"

\* ducPreview.clearCustomSchema
ClearCommand ==
    /\ \E ok \in BOOLEAN : ClearCustomSchema(ok)
    /\ NothingQueried /\ NothingRead /\ NothingConverted /\ NothingSelected
    /\ UNCHANGED <<workspaceOpen, fileState, fileText>>
    /\ UNCHANGED <<now, platform, locatorVars, scratchVars, call, catchVars, parserVars, conv>>

\* getCurrentSchemaDisplayName, for the page of the editor
ShowSchemaName ==
    /\ lastGet' = ConfigGet
    /\ lastPath' = GetCustomSchemaPath
    /\ NothingRead /\ NothingCleared /\ NothingConverted /\ NothingSelected
    /\ UNCHANGED <<workspaceOpen, wsValue, globalValue, fileState, fileText>>
    /\ UNCHANGED <<now, platform, locatorVars, scratchVars, call, catchVars, parserVars, conv>>

\* The schema part of convertDucToJson: getCustomSchemaContent, then the
\* text that is written to the schema file and later handed to parseSchema
\* (customSchemaContent if it is a non-empty string, else DUC_SCHEMA).  No
\* other code of the extension runs between its awaits in this model.
PrepareSchema ==
    /\ lastGet' = ConfigGet
    /\ lastPath' = GetCustomSchemaPath
    /\ IF GetCustomSchemaPath = NoPath
       THEN /\ NothingRead /\ NothingCleared
            /\ schemaUsed' = "default"
            /\ UNCHANGED <<wsValue, globalValue>>
       ELSE \/ /\ fileState[GetCustomSchemaPath] \in {"file", "empty"}
               /\ lastRead' = "ok"
               /\ NothingCleared
               /\ schemaUsed' = IF fileState[GetCustomSchemaPath] = "file"
                                THEN fileText[GetCustomSchemaPath] ELSE "default"
               /\ UNCHANGED <<wsValue, globalValue>>
            \/ /\ lastRead' = "failed"
               /\ \E ok \in BOOLEAN : ClearCustomSchema(ok)
               /\ schemaUsed' = "default"
    /\ NothingSelected
    /\ UNCHANGED <<workspaceOpen, fileState, fileText>>
    /\ UNCHANGED <<now, platform, locatorVars, scratchVars, call, catchVars, parserVars, conv>>

SettingsInit ==
    /\ PipelineAtRest
    /\ ParserAtRest
    /\ SettingsAtRest

SettingsNext ==
    \/ OpenFolder
    \/ CloseFolder
    \/ FileChange
    \/ EditSettings
    \/ SelectCustomSchema
    \/ ClearCommand
    \/ ShowSchemaName
    \/ PrepareSchema

SettingsSpec == SettingsInit /\ [][SettingsNext]_vars

\* --------------------------- conversions and commands between the awaits
\* `if (customSchemaContent)` and `customSchemaContent || DUC_SCHEMA`: null
\* and the empty string select the default schema.
Truthy(content) == content \in CustomTexts

EffectiveSchema(content) == IF Truthy(content) THEN content ELSE "default"

\* The lines of the texts: DUC_SCHEMA and the two a schema file may hold.
DefaultSchema ==
    << <<"thumbnail", ":", " ", "[ubyte]", ";">>, <<"n", ":", "int", ";">> >>

SchemaTextOf(text) ==
    IF text = "textA" THEN << <<"payload", ":", " ", "[ubyte]", ";">> >>
    ELSE IF text = "textB"
    THEN << <<"a", ":", " ", "T", ";">>, <<"table", " ", "T", " ", "{">>,
            <<"blob", ":", " ", "[ubyte]", ";">>, <<"}">> >>
    ELSE DefaultSchema

\* this.byteArrayFields.clear()
NotCleared(fields) == fields

Cleared(fields) == {}

\* convertDucToJson up to the await inside getCustomSchemaContent:
\* getCustomSchemaPath, then readFile is started; with no valid override the
\* default schema is written at once.
BeginContent(c) ==
    /\ conv[c].pc = "idle"
    /\ conv' = [conv EXCEPT ![c] =
                  IF GetCustomSchemaPath = NoPath
                  THEN [@ EXCEPT !.pc = "decoding", !.content = "null",
                                 !.written = EffectiveSchema("null")]
                  ELSE [@ EXCEPT !.pc = "reading", !.path = GetCustomSchemaPath]]
    /\ NothingQueried /\ NothingRead /\ NothingCleared /\ NothingConverted
    /\ NothingSelected
    /\ UNCHANGED <<workspaceOpen, wsValue, globalValue, fileState, fileText>>
    /\ UNCHANGED <<now, platform, locatorVars, scratchVars, call, catchVars, parserVars>>

\* readFile has settled.  On success the text is returned; on failure the
\* catch block calls clearCustomSchema, whose update goes to the target
\* chosen now, and null is returned.  The schema file is then written with
\* the text or with DUC_SCHEMA.
ReadSettled(c) ==
    /\ conv[c].pc = "reading"
    /\ \/ /\ fileState[conv[c].path] \in {"file", "empty"}
          /\ LET content == IF fileState[conv[c].path] = "file"
                            THEN fileText[conv[c].path] ELSE "empty"
             IN  conv' = [conv EXCEPT ![c] = [@ EXCEPT !.pc = "decoding",
                                                      !.content = content,
                                                      !.written = EffectiveSchema(content)]]
          /\ NothingCleared
          /\ UNCHANGED <<wsValue, globalValue>>
       \/ /\ \E ok \in BOOLEAN : ClearCustomSchema(ok)
          /\ conv' = [conv EXCEPT ![c] = [@ EXCEPT !.pc = "decoding",
                                                   !.content = "null",
                                                   !.written = EffectiveSchema("null")]]
    /\ NothingQueried /\ NothingRead /\ NothingConverted /\ NothingSelected
    /\ UNCHANGED <<workspaceOpen, fileState, fileText>>
    /\ UNCHANGED <<now, platform, locatorVars, scratchVars, call, catchVars, parserVars>>

\* The decoder has exited and its output has been read: parseSchema of
\* `customSchemaContent || DUC_SCHEMA` on the shared SchemaParser, then
\* encodeBinaryFields with the set it left, in one piece.
Finalize(c) ==
    /\ conv[c].pc = "decoding"
    /\ LET text == SchemaTextOf(EffectiveSchema(conv[c].content))
           fields == Cleared(byteArrayFields) \cup ParseSchema(text)
       IN  /\ schemaContent' = text
           /\ byteArrayFields' = fields
           /\ conv' = [conv EXCEPT ![c] = [@ EXCEPT !.pc = "done", !.used = fields]]
    /\ UNCHANGED <<now, platform, locatorVars, scratchVars, call, catchVars,
                   tree, treeBefore, passes, settingVars>>

\* Two schema files on disk, each a text, a directory or empty.
InterleavedInit ==
    /\ PipelineAtRest
    /\ ParserAtRest
    /\ workspaceOpen = FALSE
    /\ wsValue = NoPath
    /\ globalValue = NoPath
    /\ fileState \in {f \in [SchemaPaths -> {"file", "empty", "dir"}] : f["my.txt"] = "file"}
    /\ fileText = [p \in SchemaPaths |-> IF p = "new.fbs" THEN "textB" ELSE "textA"]
    /\ lastGet = "none"
    /\ lastPath = "none"
    /\ lastRead = "none"
    /\ lastClear = "none"
    /\ schemaUsed = "none"
    /\ lastSelect = NotSelected
    /\ conv = [c \in Calls |-> IdleConv]

InterleavedNext ==
    \/ SelectCustomSchema
    \/ ClearCommand
    \/ \E c \in Calls :
         \/ BeginContent(c)
         \/ ReadSettled(c)
         \/ Finalize(c)

InterleavedSpec == InterleavedInit /\ [][InterleavedNext]_vars

\* ------------------------------------------------------------------ claims
Downloading(c) == call[c].pc \in {"dlSetup", "downloading", "extracting", "verifying"}

Probing(c) == call[c].pc \in {"pathq", "localq"}

AlreadyMsg == "Already downloading flatc, please wait."

\* C1: at most one caller is ever inside the download/extract/verify part of
\* downloadFlatc, the flag is set exactly while one is, and a caller that
\* leaves its version query for the download step while another caller is
\* downloading settles in that very step with the 'Already downloading' error
\* (it neither waits nor starts a download).
C1_SingleDownload ==
    /\ [](Cardinality({c \in Callers : Downloading(c)}) <= 1)
    /\ [][\A c \in Callers :
            (/\ Probing(c)
             /\ \E d \in Callers \ {c} : Downloading(d)
             /\ call'[c] # call[c]
             /\ call'[c].result # "path"
             /\ call'[c].pc # "localq")
            => /\ call'[c].pc = "done"
               /\ call'[c].result = "error"
               /\ call'[c].error = AlreadyMsg
               /\ UNCHANGED <<isDownloading, binDir, binFile, flatcPath>>]_vars

C1_Witness ==
    \E c, d \in Callers :
        /\ call[c].pc = "extracting"
        /\ call[d].pc = "done"
        /\ call[d].error = AlreadyMsg

OtherPlatform == platform \notin {"win32", "darwin", "linux"}

\* C6 as claimed: on a platform other than win32, darwin and linux no
\* getFlatcPath call ever returns a path.
C6_Original ==
    OtherPlatform => \A c \in Callers : call[c].result # "path"

\* C6 as amended: on such a platform no download request is ever made and the
\* bin directory is never touched by downloadFlatc; a call that enters the
\* download task fails there with the unsupported-platform error, and every
\* path returned comes from the PATH tool or the locally stored binary.
C6_UnsupportedPlatformNoDownload ==
    /\ [](OtherPlatform =>
            \A c \in Callers :
                /\ call[c].pc \notin {"downloading", "extracting", "verifying"}
                /\ call[c].url = "none"
                /\ call[c].dlProbe = "none"
                /\ call[c].result = "error"
                   => call[c].error \in {"Unsupported platform", AlreadyMsg})
    /\ [][OtherPlatform =>
            \A c \in Callers :
                (call[c].pc = "dlSetup" /\ call'[c] # call[c])
                => /\ call'[c].error = "Unsupported platform"
                   /\ call'[c].result = "error"
                   /\ ~isDownloading'
                   /\ UNCHANGED <<binDir, binFile, flatcPath>>]_vars

C6_Witness ==
    /\ platform = "freebsd"
    /\ \E c \in Callers : call[c].error = "Unsupported platform"

\* C7: a caller is in the download part only after its PATH query failed and
\* the local binary was absent or failed its query; the local binary is looked
\* at only after the PATH query failed; and whenever the memoized path changes,
\* the caller that set it has just had a successful version query of that tool.
C7_ThreeTiers ==
    /\ [](\A c \in Callers :
            /\ Downloading(c) =>
                 (call[c].pathProbe = "failed" /\ call[c].localProbe \in {"absent", "failed"})
            /\ call[c].localProbe # "none" => call[c].pathProbe = "failed"
            /\ call[c].dlProbe # "none" => call[c].localProbe \in {"absent", "failed"})
    /\ [][flatcPath' # flatcPath =>
            \E c \in Callers :
                /\ call'[c] # call[c]
                /\ call'[c].flatc = flatcPath'
                /\ \/ flatcPath' = BareName /\ call'[c].pathProbe = "ok"
                   \/ flatcPath' = LocalPath /\ call'[c].localProbe = "ok"
                   \/ flatcPath' = LocalPath /\ call'[c].dlProbe = "ok"]_vars

C7_Witness ==
    \E c \in Callers :
        /\ call[c].result = "path"
        /\ call[c].flatc = LocalPath
        /\ call[c].pathProbe = "failed"
        /\ call[c].localProbe = "failed"
        /\ call[c].dlProbe = "ok"

\* C2: a conversion that failed at tool resolution, at the decoder invocation
\* or at reading the output ran no later step (it returned nothing) and has
\* attempted to delete every scratch file it had created.
C2_FailureStillCleansUp ==
    \A c \in Calls :
        call[c].failedAt \in {"resolve", "exec", "read"}
        => /\ call[c].result = "error"
           /\ call[c].outPayload = 0
           /\ call[c].created \subseteq call[c].unlinkTried

\* C3: two conversions in progress never share a schema path or a payload
\* path (and with it the output path), and a conversion that returns text
\* returns the decoding of its own payload.
C3_DistinctScratchPaths ==
    /\ \A c, d \in Calls :
         (c # d /\ call[c].schemaT >= 0 /\ call[d].schemaT >= 0)
         => call[c].schemaT # call[d].schemaT
    /\ \A c, d \in Calls :
         (c # d /\ call[c].tempT >= 0 /\ call[d].tempT >= 0)
         => call[c].tempT # call[d].tempT
    /\ \A c \in Calls : call[c].result = "text" => call[c].outPayload = c

\* C5 as claimed: once a path is memoized it is the same path for the rest of
\* the run.
C5_Original == [][flatcPath # NoPath => flatcPath' = flatcPath]_vars

\* C5 as amended: a memoized path is never cleared; a getFlatcPath call made
\* while a path is memoized returns that path at once, with no version query,
\* no look at the bin directory and no download; a conversion that fails at or
\* after the decoder invocation leaves the memoized path alone; and a memoized
\* path is replaced only by a resolution that was already under way (in one of
\* its version queries) when the path was memoized.
C5_MemoizedPathIsReused ==
    /\ [][flatcPath # NoPath => flatcPath' # NoPath]_vars
    /\ [][\A c \in Calls :
            (/\ flatcPath # NoPath
             /\ call[c].pc = "schema"
             /\ call'[c].pc # "schema"
             /\ call'[c].failedAt = "none")
            => /\ call'[c].pc = "exec"
               /\ call'[c].flatc = flatcPath
               /\ call'[c].pathProbe = "none"
               /\ call'[c].localProbe = "none"
               /\ call'[c].dlProbe = "none"
               /\ UNCHANGED <<flatcPath, isDownloading, binDir, binFile>>]_vars
    /\ [][\A c \in Calls :
            (call[c].pc = "exec" /\ call'[c].pc = "done")
            => flatcPath' = flatcPath]_vars
    /\ [][(flatcPath # NoPath /\ flatcPath' # flatcPath) =>
            \E c \in Calls :
                /\ call[c].pc \in {"pathq", "localq", "verifying"}
                /\ call'[c].pc = "exec"
                /\ call'[c].flatc = flatcPath']_vars

C5_Witness ==
    \E c, d \in Calls :
        /\ call[d].failedAt = "exec"
        /\ flatcPath = BareName
        /\ call[c].pc = "exec"
        /\ call[c].flatc = BareName
        /\ call[c].pathProbe = "none"

\* C9: a conversion returns text only when no step failed (schema and payload
\* written, tool resolved, decoder run, output read and parsed), and then it is
\* shown as content; a conversion in which any step failed returns no text,
\* rejects with an error, and the editor shows the error.
C9_TextOrError ==
    \A c \in Calls :
        /\ call[c].pc = "done" => call[c].result \in {"text", "error"}
        /\ call[c].result = "text"
           => /\ call[c].failedAt = "none"
              /\ call[c].created = ScratchKinds
              /\ call[c].flatc # NoPath
              /\ call[c].outPayload # 0
              /\ call[c].webview = "content"
        /\ call[c].failedAt # "none"
           => /\ call[c].result = "error"
              /\ call[c].error # "none"
              /\ call[c].outPayload = 0
              /\ call[c].webview = "error"

C9_Witness ==
    \E c, d \in Calls :
        /\ call[c].failedAt = "read"
        /\ call[c].webview = "error"
        /\ call[d].result = "text"

\* C10: whenever a deletion of a scratch file failed, all three deletions were
\* still attempted, the failure is not the reason of any rejection (only the
\* later JSON.parse can still reject), and otherwise the text is returned.
C10_CleanupFailureOnlyLogged ==
    \A c \in Calls :
        call[c].unlinkFailed # {}
        => /\ call[c].unlinkTried = ScratchKinds
           /\ call[c].failedAt \in {"none", "parse"}
           /\ call[c].failedAt = "none"
              => (call[c].result = "text" /\ call[c].webview = "content")

C10_Witness ==
    \E c \in Calls :
        /\ call[c].unlinkFailed = {"schema"}
        /\ call[c].unlinkTried = ScratchKinds
        /\ call[c].result = "text"

\* C8: when the caught error carries a numeric exit code and non-blank stderr,
\* the message thrown holds the exit code and the (trimmed) stderr text, and
\* also the (trimmed) stdout text and the signal name when those are present.
C8_MessageHasCodeAndStderr ==
    (/\ errMsg # <<>>
     /\ errIn.code.t = "number"
     /\ errIn.stderr.t = "string"
     /\ Trim(errIn.stderr.v) # <<>>)
    => /\ Contains(errMsg, <<"\n\nExit code: ">> \o errIn.code.v)
       /\ Contains(errMsg, <<"\n\nStderr from flatc", ":\n">> \o Trim(errIn.stderr.v))
       /\ (errIn.stdout.t = "string" /\ Trim(errIn.stdout.v) # <<>>)
          => Contains(errMsg, <<"\n\nStdout from flatc", ":\n">> \o Trim(errIn.stdout.v))
       /\ errIn.signal.t = "string"
          => Contains(errMsg, <<"\n\nSignal: ">> \o errIn.signal.v)

C8_Witness ==
    /\ errIn.code = JsNumber("1")
    /\ errIn.stderr = JsString(<<"m", " ">>)
    /\ errIn.stdout = JsString(<<"o", " ">>)
    /\ errIn.signal = JsString(<<"SIGKILL">>)
    /\ Contains(errMsg, <<"m", "\n\nStdout from flatc">>)

\* ---------------------------------------------------- claims on the parser
SafetyNetPaths ==
    {<<"data">>,
     <<"thumbnail">>,
     <<"files", ".", "entries", ".", "value", ".", "data">>,
     <<"version_graph", ".", "checkpoints", ".", "data">>,
     <<"external_files", ".", "value", ".", "data">>}

\* C11: whatever the schema text (empty and unparseable ones included),
\* every parseSchema call leaves a classifier for which shouldEncodeAsBase64
\* is true for data, thumbnail, files.entries.value.data,
\* version_graph.checkpoints.data and external_files.value.data.
C11_SafetyNetAlwaysBinary ==
    [][\A p \in SafetyNetPaths : ShouldEncodeAsBase64(byteArrayFields', p)]_vars

C11_Witness ==
    /\ schemaContent \in {<<>>, << <<"}">> >>}
    /\ <<"thumbnail">> \in byteArrayFields

\* name : [byte] or name : [ubyte] stands somewhere on the line, and the line
\* is no comment
DeclaresByteArray(line, name) ==
    /\ Trim(line) # <<>>
    /\ Head(Trim(line)) \notin {"//", "#"}
    /\ \E i \in 1..Len(line) :
         /\ line[i] = name
         /\ IsWord(name)
         /\ At(line, SkipSpace(line, i + 1)) = ":"
         /\ At(line, SkipSpace(line, SkipSpace(line, i + 1) + 1)) \in {"[byte]", "[ubyte]"}

DeclaredByteArrays(content) ==
    {name \in UNION {{content[i][j] : j \in 1..Len(content[i])} : i \in 1..Len(content)} :
        \E i \in 1..Len(content) : DeclaresByteArray(content[i], name)}

\* C12: after parseSchema, every field the schema text declares as a byte
\* array, in whatever layout of the line, is classified as binary under its
\* bare name.
C12_DeclaredByteArraysAreBinary ==
    byteArrayFields # {}
    => \A name \in DeclaredByteArrays(schemaContent) :
           ShouldEncodeAsBase64(byteArrayFields, <<name>>)

\* The schema text as one run of lexemes: comment lines and whitespace left out.
NotSpace(tok) == tok # " "

RECURSIVE Lexemes(_)
Lexemes(content) ==
    IF content = <<>> THEN <<>>
    ELSE (IF Trim(Head(content)) # <<>> /\ Head(Trim(Head(content))) \in {"//", "#"}
          THEN <<>>
          ELSE SelectSeq(Head(content), NotSpace))
         \o Lexemes(Tail(content))

\* positions of the headers 'table T {'
TableHeaders(tk, T) ==
    {i \in 1..(Len(tk) - 2) : tk[i] = "table" /\ tk[i + 1] = T /\ tk[i + 2] = "{"}

TableNames(tk) == {T \in {tk[i] : i \in 1..Len(tk)} : IsWord(T) /\ TableHeaders(tk, T) # {}}

\* the position of the '}' that closes the body opened at position i
BodyEnd(tk, i) ==
    LET closes == {j \in i..Len(tk) : tk[j] = "}"}
    IN  IF closes = {} THEN Len(tk) + 1
        ELSE CHOOSE j \in closes : \A k \in closes : j <= k

\* names declared as a byte array between the braces of table T
BodyByteArrays(tk, T) ==
    {tk[j] : j \in {j \in 1..(Len(tk) - 2) :
                      /\ IsWord(tk[j])
                      /\ tk[j + 1] = ":"
                      /\ tk[j + 2] \in {"[byte]", "[ubyte]"}
                      /\ \E i \in TableHeaders(tk, T) :
                           i + 2 < j /\ j < BodyEnd(tk, i + 2)}}

\* the declarations f : T with T the name of a table of the text
TableTypedFields(tk) ==
    {<<tk[j], tk[j + 2]>> : j \in {j \in 1..(Len(tk) - 2) :
                                     /\ IsWord(tk[j])
                                     /\ tk[j + 1] = ":"
                                     /\ tk[j + 2] \in TableNames(tk)}}

\* braces pair up without nesting and every table is defined once
WellFormedSchema(tk) ==
    /\ \A n \in 0..Len(tk) :
           Count(SubSeq(tk, 1, n), "{") - Count(SubSeq(tk, 1, n), "}") \in {0, 1}
    /\ Count(tk, "{") = Count(tk, "}")
    /\ \A T \in TableNames(tk) : Cardinality(TableHeaders(tk, T)) = 1

\* C25: after parseSchema of a well-formed text, for every declaration f : T
\* of table type the set holds f.c for every byte-array field c declared
\* between the braces of T, and every two-part path f.c of the set stems
\* from such a declaration and such a field.
C25_NestedByteArraysFound ==
    (byteArrayFields # {} /\ WellFormedSchema(Lexemes(schemaContent)))
    => LET tk == Lexemes(schemaContent)
       IN  /\ \A d \in TableTypedFields(tk) :
                  \A c \in BodyByteArrays(tk, d[2]) :
                      <<d[1], ".", c>> \in byteArrayFields
           /\ \A p \in byteArrayFields :
                  Len(p) = 3
                  => \E d \in TableTypedFields(tk) :
                         p[1] = d[1] /\ p[3] \in BodyByteArrays(tk, d[2])

\* A field path as encodeBinaryFields builds it: a key step or an index step
\* at a time.
KeyStep(k) == [key |-> k, index |-> -1]

IndexStep(i) == [key |-> "", index |-> i]

PathSteps ==
    {KeyStep(k) : k \in {"data", "payload", "a"}} \cup {IndexStep(i) : i \in {0, 1}}

RECURSIVE PathOf(_)
PathOf(steps) ==
    IF steps = <<>> THEN <<>>
    ELSE LET front == PathOf(SubSeq(steps, 1, Len(steps) - 1))
             last == steps[Len(steps)]
         IN  IF last.index >= 0 THEN PathIndex(front, last.index)
             ELSE PathKey(front, last.key)

IsKeyStep(st) == st.index < 0

\* the same path with every index step left out
KeysOnly(steps) == SelectSeq(steps, IsKeyStep)

StepSeqs == UNION {[1..n -> PathSteps] : n \in 0..MaxPathSteps}

\* each path paired with the same path without its index steps
PathPairs(seqs) == {<<PathOf(q), PathOf(KeysOnly(q))>> : q \in seqs}

AllPathPairs == PathPairs(StepSeqs)

\* the pairs of the paths that begin with a field name
NamedPathPairs == PathPairs({q \in StepSeqs : q # <<>> /\ IsKeyStep(q[1])})

C14_RewriteIdempotent ==
    passes = 2 => tree = treeBefore

C14_Witness ==
    /\ passes = 2
    /\ tree.t = "object"
    /\ tree.kids[1] = JStr(<<"a", "G", "k", "=">>)
    /\ <<"a", ".", "payload">> \in byteArrayFields

\* C15: under the schema text 'table T { data: [ubyte]; }', one pass over a
\* tree whose root holds data: [104,105] leaves the string "aGk=" (the base64
\* text of the bytes 104,105) in data and everything else as it was.
C15_ScenarioA ==
    (/\ passes = 1
     /\ schemaContent = << <<"table", " ", "T", " ", "{", " ", "data", ":", " ",
                             "[ubyte]", ";", " ", "}">> >>
     /\ treeBefore.t = "object"
     /\ treeBefore.keys[1] = "data"
     /\ treeBefore.kids[1] = JArr(<<JNum(104), JNum(105)>>))
    => tree = [treeBefore EXCEPT !.kids[1] = JStr(<<"a", "G", "k", "=">>)]

C15_Witness ==
    /\ passes = 1
    /\ Len(schemaContent) = 1
    /\ Len(schemaContent[1]) = 13
    /\ treeBefore = JObj(<<"data">>, <<JArr(<<JNum(104), JNum(105)>>)>>)
    /\ tree = JObj(<<"data">>, <<JStr(<<"a", "G", "k", "=">>)>>)

\* a non-empty array all of whose elements are numbers
IsNumberArray(v) ==
    /\ v.t = "array"
    /\ Len(v.kids) > 0
    /\ \A i \in 1..Len(v.kids) : v.kids[i].t = "number"

\* C16: a pass leaves every entry of the root unchanged whose path is
\* classified as binary and whose value is not a non-empty array of numbers
\* (an empty array, a scalar, an object, an array with a non-number in it).
C16_WrongShapeUntouched ==
    (passes = 1 /\ treeBefore.t = "object")
    => \A i \in 1..Len(treeBefore.keys) :
           (/\ ShouldEncodeAsBase64(byteArrayFields, <<treeBefore.keys[i]>>)
            /\ ~IsNumberArray(treeBefore.kids[i]))
           => tree.kids[i] = treeBefore.kids[i]

\* C24: after a pass, no node of the tree has a path that is classified as
\* binary and a value that is still a non-empty array of numbers, nodes below
\* another classified node included.
C24_NoByteArrayLeft ==
    passes >= 1
    => \A nd \in Nodes(tree, <<>>) :
           ~(ShouldEncodeAsBase64(byteArrayFields, nd.path) /\ IsNumberArray(nd.value))

\* before and after agree everywhere outside the classified nodes: the same
\* keys in the same order, arrays of the same length, equal scalars
RECURSIVE FrameKept(_, _, _, _)
FrameKept(fields, before, after, path) ==
    IF ShouldEncodeAsBase64(fields, path) THEN TRUE
    ELSE IF before.t = "array"
    THEN /\ after.t = "array"
         /\ Len(after.kids) = Len(before.kids)
         /\ \A i \in 1..Len(before.kids) :
                FrameKept(fields, before.kids[i], after.kids[i],
                          path \o <<"[", ToString(i - 1), "]">>)
    ELSE IF before.t = "object"
    THEN /\ after.t = "object"
         /\ after.keys = before.keys
         /\ \A i \in 1..Len(before.keys) :
                FrameKept(fields, before.kids[i], after.kids[i],
                          IF path = <<>> THEN <<before.keys[i]>>
                          ELSE path \o <<".", before.keys[i]>>)
    ELSE after = before

\* C27: a pass changes nothing outside the nodes whose path is classified as
\* binary, and a tree none of whose nodes has a classified path comes back
\* equal.
C27_OnlyClassifiedNodesChange ==
    passes >= 1
    => /\ FrameKept(byteArrayFields, treeBefore, tree, <<>>)
       /\ (\A nd \in Nodes(treeBefore, <<>>) :
               ~ShouldEncodeAsBase64(byteArrayFields, nd.path))
          => tree = treeBefore

C27_Witness ==
    /\ passes = 1
    /\ treeBefore = JObj(<<"data", "a">>, <<Bytes, JObj(<<"data">>, <<Bytes>>)>>)
    /\ tree = JObj(<<"data", "a">>,
                   <<JStr(<<"a", "G", "k", "=">>), JObj(<<"data">>, <<Bytes>>)>>)
    /\ <<"a", ".", "data">> \notin byteArrayFields

\* C28: no pass ever takes the array branch's splice: no array is ever
\* replaced in place by a one-element array holding the encoded string.
C28_SpliceNeverTaken ==
    passes >= 1 => SplicedPaths(byteArrayFields, treeBefore, <<>>) = {}

C28_Witness ==
    /\ passes = 1
    /\ Len(treeBefore.kids) = 2
    /\ treeBefore.kids[2] = JArr(<<JObj(<<"payload">>, <<Bytes>>)>>)
    /\ tree.kids[2] = JArr(<<JObj(<<"payload">>, <<JStr(<<"a", "G", "k", "=">>)>>)>>)

\* -------------------------------------------------- claims on the settings
\* C17: a conversion that finds the stored override path missing on disk gets
\* null from getCustomSchemaPath, reads nothing, clears nothing, and writes
\* and classifies the built-in default schema.
C17_MissingOverrideFallsBack ==
    (/\ schemaUsed # "none"
     /\ lastGet \in SchemaPaths
     /\ fileState[lastGet] = "missing")
    => /\ lastPath = NoPath
       /\ lastRead = "none"
       /\ lastClear = "none"
       /\ schemaUsed = "default"

C17_Witness ==
    /\ schemaUsed = "default"
    /\ lastGet = "my.fbs"
    /\ fileState["my.fbs"] = "missing"
    /\ lastPath = NoPath

\* the file is missing, or its name does not end in .fbs, or it may not be read
InvalidOverride(p) ==
    \/ fileState[p] = "missing"
    \/ p \notin {"my.fbs", "new.fbs"}
    \/ fileState[p] = "unreadable"

\* C18: after a call that found the stored override path invalid, the path
\* was treated as unset and the setting no longer holds it.
C18_InvalidOverrideIsCleared ==
    (lastGet \in SchemaPaths /\ InvalidOverride(lastGet))
    => /\ lastPath = NoPath
       /\ ConfigGet # lastGet

\* C19: after a conversion in which the override passed validation, reading
\* it failed and the clearing raised no error, the default schema was used
\* and the setting no longer holds the path.
C19_ReadFailureClearsSetting ==
    (lastRead = "failed" /\ lastClear = "ok")
    => /\ schemaUsed = "default"
       /\ ConfigGet # lastGet

\* C20: right after clearCustomSchema has completed without error,
\* getCustomSchemaPath returns null, whichever scope held the setting and
\* whether or not a folder is open.
C20_ClearRemovesOverride ==
    lastClear = "ok" => GetCustomSchemaPath = NoPath

\* C21: a selectCustomSchema run whose dialog was cancelled or whose chosen
\* path is missing, not an .fbs name or unreadable, leaves both stored values
\* as they were; a run with a valid path stores it in the workspace settings
\* when a folder is open and in the user settings otherwise, leaving the
\* other scope alone, unless the update itself is refused, which changes
\* nothing.
C21_SelectValidatesThenPersists ==
    [][lastSelect'.outcome # "none" =>
        LET p == lastSelect'.path
        IN  /\ (p = NoPath \/ InvalidOverride(p))
               => /\ lastSelect'.outcome \in {"cancelled", "invalid"}
                  /\ UNCHANGED <<wsValue, globalValue>>
            /\ (p # NoPath /\ ~InvalidOverride(p))
               => \/ /\ lastSelect'.outcome = "saved"
                     /\ IF workspaceOpen
                        THEN wsValue' = p /\ UNCHANGED globalValue
                        ELSE globalValue' = p /\ UNCHANGED wsValue
                  \/ /\ lastSelect'.outcome = "failed"
                     /\ UNCHANGED <<wsValue, globalValue>>]_vars

C21_Witness ==
    /\ lastSelect = [path |-> "new.fbs", outcome |-> "saved"]
    /\ workspaceOpen
    /\ wsValue = "new.fbs"
    /\ globalValue = "my.fbs"

\* the stored value that is in effect: the workspace's while a folder is open
\* and holds one, else the user's
SettingInEffect ==
    IF workspaceOpen /\ wsValue # NoPath THEN wsValue ELSE globalValue

\* C23: every conversion queries the setting as it is stored when the
\* conversion starts, reads the file it names as it is on disk then, and
\* uses that text (the default when there is no valid override, the read
\* fails or the file is empty), whatever earlier conversions saw.
C23_ConversionRereads ==
    [][schemaUsed' # "none" =>
        LET p == SettingInEffect
            valid == p # NoPath /\ ~InvalidOverride(p)
        IN  /\ lastGet' = p
            /\ valid => lastRead' # "none"
            /\ schemaUsed' = IF valid /\ lastRead' = "ok" /\ fileState[p] = "file"
                             THEN fileText[p] ELSE "default"]_vars

C23_Witness ==
    /\ schemaUsed = "textB"
    /\ lastGet = "new.fbs"
    /\ lastRead = "ok"
    /\ globalValue = "my.fbs"

\* C29: when the read of a conversion fails while the setting in effect
\* holds another, valid path (stored since the conversion looked the setting
\* up), the conversion's clearing leaves that path in effect.
C29_ClearSparesNewerOverride ==
    [][\A c \in Calls :
        (/\ conv[c].pc = "reading"
         /\ conv'[c].pc = "decoding"
         /\ conv'[c].content = "null"
         /\ ConfigGet # NoPath
         /\ ConfigGet # conv[c].path
         /\ IsValidSchemaFile(ConfigGet))
        => ConfigGet' = ConfigGet]_vars

\* C22: the path set a finished conversion rewrote its tree with is the one
\* parseSchema yields for the schema text this conversion wrote to its
\* schema file, whatever other conversions parsed before or in between on
\* the shared SchemaParser.
C22_OwnSchemaClassifies ==
    \A c \in Calls :
        conv[c].pc = "done"
        => conv[c].used = ParseSchema(SchemaTextOf(conv[c].written))

C22_Witness ==
    \E c, d \in Calls :
        /\ conv[c].pc = "done"
        /\ conv[c].written = "textB"
        /\ <<"a", ".", "blob">> \in conv[c].used
        /\ conv[d].pc = "done"
        /\ conv[d].written = "textA"
        /\ byteArrayFields = conv[d].used
        /\ <<"a", ".", "blob">> \notin byteArrayFields

\* ------------------------------------------------ claims on the conversion
\* C26: in every conversion the decoder is invoked only after the schema file
\* and the payload file have been written and a tool path has been returned;
\* the output file exists only once the decoder has been invoked; deletions
\* of scratch files are attempted only after the output has been read (never
\* in a conversion that failed before or at the read); and JSON.parse runs,
\* and text is returned, only after all three deletions have been attempted.
C26_StepsInOrder ==
    \A c \in Calls :
        /\ call[c].pc \in {"pathq", "localq", "dlSetup", "downloading", "extracting", "verifying"}
           => (call[c].created = {"schema", "temp"} /\ call[c].flatc = NoPath)
        /\ call[c].pc = "exec"
           => (call[c].created = {"schema", "temp"} /\ call[c].flatc # NoPath)
        /\ "json" \in call[c].created
           => (call[c].created = ScratchKinds /\ call[c].flatc # NoPath)
        /\ call[c].unlinkTried # {}
           => /\ "json" \in call[c].created
              /\ call[c].failedAt \in {"none", "parse"}
              /\ call[c].pc = "done"
        /\ call[c].failedAt \in {"schemaWrite", "payloadWrite", "resolve", "exec", "read"}
           => call[c].unlinkTried = {}
        /\ (call[c].result = "text" \/ call[c].failedAt = "parse")
           => call[c].unlinkTried = ScratchKinds

C26_Witness ==
    \E c \in Calls :
        /\ call[c].result = "text"
        /\ call[c].created = ScratchKinds
        /\ call[c].unlinkTried = ScratchKinds
        /\ call[c].unlinkFailed = {}
        /\ call[c].flatc = LocalPath
        /\ \E d \in Calls : call[d].failedAt = "parse"

\* --------------------------------------------------- claims on the locator
\* C30: the step in which a caller's version query of the tool on the search
\* path succeeds memoizes the bare name 'flatc', hands that name to the
\* caller, and leaves the bin directory, the binary in it and the download
\* flag as they were, whatever the bin directory holds; the caller has looked
\* at no local binary and requested no download.
C30_PathToolLeavesBinAlone ==
    [][\A c \in Callers :
        (call[c].pc = "pathq" /\ call'[c].pathProbe = "ok")
        => /\ flatcPath' = "flatc"
           /\ call'[c].flatc = "flatc"
           /\ call'[c].localProbe = "none"
           /\ call'[c].dlProbe = "none"
           /\ call'[c].url = "none"
           /\ UNCHANGED <<binDir, binFile, isDownloading>>]_vars

C30_Witness ==
    \E c \in Callers :
        /\ call[c].pathProbe = "ok"
        /\ call[c].result = "path"
        /\ call[c].flatc = "flatc"
        /\ flatcPath = "flatc"
        /\ binDir
        /\ binFile = "noexec"

TypeOK ==
    /\ now \in Times
    /\ flatcPath \in {NoPath, BareName, LocalPath}
    /\ isDownloading \in BOOLEAN

====
